---- MODULE Spec2Model ----
(***************************************************************************)
(* Model of the kwantrace_r transform and scene-node core:                 *)
(*   src/src/vector.rs    Position, Direction, Matrix3x3, HMatrix, Ray     *)
(*   src/src/transform.rs transform ops and the TransformList fold         *)
(*   src/src/render.rs    Render, Sphere, Union                            *)
(*   src/src/main.rs      ray_sphere                                       *)
(*                                                                         *)
(* f64 values are modelled as exact rationals <<n, d>> in lowest terms     *)
(* with d > 0.  Inputs are drawn from sets on which every f64 operation    *)
(* of the code is exact (small integers, quarter-turn angles, perfect      *)
(* square discriminants), so rounding is outside the model.  Rust panics   *)
(* (index out of bounds) are modelled explicitly.                          *)
(***************************************************************************)
EXTENDS Integers, Sequences, FiniteSets, TLC

(***************************************************************************)
(* Exact arithmetic standing for f64                                       *)
(***************************************************************************)
Abs(n) == IF n < 0 THEN -n ELSE n

RECURSIVE GCD(_, _)
GCD(a, b) == IF b = 0 THEN a ELSE GCD(b, a % b)

\* the rational n/d in lowest terms, d # 0
Norm(n, d) ==
    LET g == GCD(Abs(n), Abs(d))
        s == IF d < 0 THEN -1 ELSE 1
    IN  <<(s * n) \div g, (s * d) \div g>>

Rat(n) == <<n, 1>>
Zero == Rat(0)
One == Rat(1)
Two == Rat(2)
Four == Rat(4)

\* (the integer cases are the same values, computed without the reduction)
Add(a, b) ==
    IF a[2] = 1 /\ b[2] = 1 THEN <<a[1] + b[1], 1>>
    ELSE Norm(a[1] * b[2] + b[1] * a[2], a[2] * b[2])
Neg(a) == <<-a[1], a[2]>>
Sub(a, b) == Add(a, Neg(b))
Mul(a, b) ==
    IF a[2] = 1 /\ b[2] = 1 THEN <<a[1] * b[1], 1>>
    ELSE Norm(a[1] * b[1], a[2] * b[2])
\* a/b for b # 0 (the inputs of the model never divide by zero)
Div(a, b) ==
    IF b[1] = 1 /\ b[2] = 1 THEN a
    ELSE Norm(a[1] * b[2], a[2] * b[1])
Lt(a, b) == a[1] * b[2] < b[1] * a[2]

\* integer square root (floor); exact on perfect squares
ISqrt(n) == CHOOSE k \in 0..n : k * k <= n /\ (k + 1) * (k + 1) > n
IsSquare(a) == /\ a[1] >= 0
               /\ ISqrt(a[1]) * ISqrt(a[1]) = a[1]
               /\ ISqrt(a[2]) * ISqrt(a[2]) = a[2]
\* f64::sqrt on the non-negative perfect squares the model feeds it
Sqrt(a) == <<ISqrt(a[1]), ISqrt(a[2])>>

\* f64::cos and f64::sin at q quarter turns (q * pi/2)
Cos(q) == Rat(<<1, 0, -1, 0>>[(q % 4) + 1])
Sin(q) == Rat(<<0, 1, 0, -1>>[(q % 4) + 1])

(***************************************************************************)
(* vector.rs: Position, Direction, Vector                                  *)
(***************************************************************************)
\* Position{x,y,z} and Direction{x,y,z}: triples <<x, y, z>>
Vec(x, y, z) == <<Rat(x), Rat(y), Rat(z)>>

Position_add_dir(self, rhs) ==
    <<Add(self[1], rhs[1]), Add(self[2], rhs[2]), Add(self[3], rhs[3])>>

Direction_add_dir(self, rhs) ==
    <<Add(self[1], rhs[1]), Add(self[2], rhs[2]), Add(self[3], rhs[3])>>

dot(self, other) ==
    Add(Add(Mul(self[1], other[1]), Mul(self[2], other[2])), Mul(self[3], other[3]))

(***************************************************************************)
(* vector.rs: Matrix3x3 (e[row][col], here 1-based)                        *)
(***************************************************************************)
Mat(r1, r2, r3) ==
    << <<Rat(r1[1]), Rat(r1[2]), Rat(r1[3])>>,
       <<Rat(r2[1]), Rat(r2[2]), Rat(r2[3])>>,
       <<Rat(r3[1]), Rat(r3[2]), Rat(r3[3])>> >>

Matrix3x3_mul(a, b) ==
    [m \in 1..3 |->
        [p \in 1..3 |->
            Add(Add(Mul(a[m][1], b[1][p]), Mul(a[m][2], b[2][p])), Mul(a[m][3], b[3][p]))]]

Matrix3x3_mul_pos(self, rhs) ==
    [m \in 1..3 |->
        Add(Add(Mul(self[m][1], rhs[1]), Mul(self[m][2], rhs[2])), Mul(self[m][3], rhs[3]))]

Matrix3x3_mul_dir(self, rhs) ==
    [m \in 1..3 |->
        Add(Add(Mul(self[m][1], rhs[1]), Mul(self[m][2], rhs[2])), Mul(self[m][3], rhs[3]))]

Matrix3x3_mul_neg_dir(self, rhs) ==
    [m \in 1..3 |->
        Neg(Add(Add(Mul(self[m][1], rhs[1]), Mul(self[m][2], rhs[2])), Mul(self[m][3], rhs[3])))]

\* a*A + b*B + c*C of Matrix3x3::inv
Matrix3x3_det(self) ==
    LET a == self[1][1]  b == self[1][2]  c == self[1][3]
        d == self[2][1]  e == self[2][2]  f == self[2][3]
        g == self[3][1]  h == self[3][2]  i == self[3][3]
        cA == Sub(Mul(e, i), Mul(f, h))
        cB == Sub(Mul(f, g), Mul(d, i))
        cC == Sub(Mul(d, h), Mul(e, g))
    IN  Add(Add(Mul(a, cA), Mul(b, cB)), Mul(c, cC))

Matrix3x3_inv(self) ==
    LET a == self[1][1]  b == self[1][2]  c == self[1][3]
        d == self[2][1]  e == self[2][2]  f == self[2][3]
        g == self[3][1]  h == self[3][2]  i == self[3][3]
        cA == Sub(Mul(e, i), Mul(f, h))  cD == Sub(Mul(c, h), Mul(b, i))  cG == Sub(Mul(b, f), Mul(c, e))
        cB == Sub(Mul(f, g), Mul(d, i))  cE == Sub(Mul(a, i), Mul(c, g))  cH == Sub(Mul(c, d), Mul(a, f))
        cC == Sub(Mul(d, h), Mul(e, g))  cF == Sub(Mul(b, g), Mul(a, h))  cI == Sub(Mul(a, e), Mul(b, d))
        detinv == Div(One, Add(Add(Mul(a, cA), Mul(b, cB)), Mul(c, cC)))
    IN  << <<Mul(cA, detinv), Mul(cD, detinv), Mul(cG, detinv)>>,
           <<Mul(cB, detinv), Mul(cE, detinv), Mul(cH, detinv)>>,
           <<Mul(cC, detinv), Mul(cF, detinv), Mul(cI, detinv)>> >>

(***************************************************************************)
(* vector.rs: HMatrix {M, T} and Ray {r0, v}                               *)
(***************************************************************************)
HMatrix_mul(self, rhs) ==
    [M |-> Matrix3x3_mul(self.M, self.M),
     T |-> Direction_add_dir(Matrix3x3_mul_dir(self.M, rhs.T), self.T)]

\* a direction application that adds the translation, as for a position
HMatrix_mul_dir_AddsT(self, rhs) == Direction_add_dir(Matrix3x3_mul_dir(self.M, rhs), self.T)

HMatrix_mul_dir(self, rhs) == Matrix3x3_mul_dir(self.M, rhs)

HMatrix_mul_pos(self, rhs) == Position_add_dir(Matrix3x3_mul_pos(self.M, rhs), self.T)

\* an inverse whose translation is not negated
HMatrix_inv_NoNeg(self) ==
    LET Am1 == Matrix3x3_inv(self.M)
    IN  [T |-> Matrix3x3_mul_dir(Am1, self.T), M |-> Am1]

HMatrix_inv(self) ==
    LET Am1 == Matrix3x3_inv(self.M)
    IN  [T |-> Matrix3x3_mul_neg_dir(Am1, self.T), M |-> Am1]

\* HMatrix::identity(): called by the source, defined nowhere in it
HMatrix_identity ==
    [M |-> Mat(<<1, 0, 0>>, <<0, 1, 0>>, <<0, 0, 1>>), T |-> Vec(0, 0, 0)]

\* HMatrix::mul_ray(): called by the source, defined nowhere in it
HMatrix_mul_ray(self, rv) ==
    [r0 |-> HMatrix_mul_pos(self, rv.r0), v |-> HMatrix_mul_dir(self, rv.v)]

(***************************************************************************)
(* transform.rs: the transform ops and the TransformList fold              *)
(***************************************************************************)
Translate_make(x, y, z) == [op |-> "Translate", T |-> <<x, y, z>>]

Translate_get_matrix(self) ==
    [M |-> Mat(<<1, 0, 0>>, <<0, 1, 0>>, <<0, 0, 1>>),
     T |-> <<self.T[1], self.T[2], self.T[3]>>]

UniformScale_get_matrix(self) ==
    [M |-> << <<self.S, Zero, Zero>>, <<Zero, self.S, Zero>>, <<Zero, Zero, self.S>> >>,
     T |-> Vec(0, 0, 0)]

Scale_get_matrix(self) ==
    [M |-> << <<self.S[1], Zero, Zero>>, <<Zero, self.S[2], Zero>>, <<Zero, Zero, self.S[3]>> >>,
     T |-> Vec(0, 0, 0)]

\* the angle S is held as a number of quarter turns
RotateX_get_matrix(self) ==
    LET c == Cos(self.S)
        s == Sin(self.S)
    IN  [M |-> << <<One, Zero, Zero>>, <<Zero, c, Neg(s)>>, <<Zero, s, c>> >>,
         T |-> Vec(0, 0, 0)]

RotateY_get_matrix(self) ==
    LET c == Cos(self.S)
        s == Sin(self.S)
    IN  [M |-> << <<c, Zero, s>>, <<Zero, One, Zero>>, <<Neg(s), Zero, c>> >>,
         T |-> Vec(0, 0, 0)]

RotateZ_get_matrix(self) ==
    LET c == Cos(self.S)
        s == Sin(self.S)
    IN  [M |-> << <<c, Neg(s), Zero>>, <<s, c, Zero>>, <<Zero, Zero, One>> >>,
         T |-> Vec(0, 0, 0)]

\* dyn Transform dispatch
get_matrix(self) ==
    CASE self.op = "Translate"    -> Translate_get_matrix(self)
      [] self.op = "UniformScale" -> UniformScale_get_matrix(self)
      [] self.op = "Scale"        -> Scale_get_matrix(self)
      [] self.op = "RotateX"      -> RotateX_get_matrix(self)
      [] self.op = "RotateY"      -> RotateY_get_matrix(self)
      [] self.op = "RotateZ"      -> RotateZ_get_matrix(self)

\* outcome of a call that panicked (index out of bounds)
Panic == <<"Panic">>
\* outcome of a call that returned val
Ok(val) == <<"Ok", val>>

\* the loop of TransformList::get_matrix from element i on
RECURSIVE get_matrix_loop(_, _, _)
get_matrix_loop(self, i, result) ==
    IF i > Len(self) THEN result
    ELSE get_matrix_loop(self, i + 1, HMatrix_mul(get_matrix(self[i]), result))

\* impl Transform for TransformList: &self[0] panics on an empty list
TransformList_get_matrix(self) ==
    IF Len(self) = 0 THEN Panic
    ELSE Ok(get_matrix_loop(self, 1, HMatrix_identity))

(***************************************************************************)
(* render.rs / main.rs: the unit-sphere solver                             *)
(***************************************************************************)
\* Option<f64>
None == <<"None">>
Some(t) == <<"Some", t>>

\* b*b - 4.0*a*c of the solver
discriminant(rv) ==
    LET a == dot(rv.v, rv.v)
        b == Mul(Two, dot(rv.r0, rv.v))
        c == Sub(dot(rv.r0, rv.r0), One)
    IN  Sub(Mul(b, b), Mul(Mul(Four, a), c))

\* a solver that forgets the roots behind the ray origin
Sphere_intersect_local_NoSignCheck(rv) ==
    LET a == dot(rv.v, rv.v)
        b == Mul(Two, dot(rv.r0, rv.v))
        c == Sub(dot(rv.r0, rv.r0), One)
        d == Sub(Mul(b, b), Mul(Mul(Four, a), c))
    IN  IF Lt(d, Zero) THEN None
        ELSE Some(Div(Sub(Neg(b), Sqrt(d)), Mul(Two, a)))

Sphere_intersect_local(rv) ==
    LET a == dot(rv.v, rv.v)
        b == Mul(Two, dot(rv.r0, rv.v))
        c == Sub(dot(rv.r0, rv.r0), One)
        d == Sub(Mul(b, b), Mul(Mul(Four, a), c))
    IN  IF Lt(d, Zero) THEN None
        ELSE LET tp == Div(Add(Neg(b), Sqrt(d)), Mul(Two, a))
                 tm == Div(Sub(Neg(b), Sqrt(d)), Mul(Two, a))
             IN  IF Lt(tp, Zero) /\ Lt(tm, Zero) THEN None
                 ELSE IF Lt(tp, Zero) THEN Some(tm)
                 ELSE IF Lt(tm, Zero) THEN Some(tp)
                 ELSE IF Lt(tp, tm) THEN Some(tp)
                 ELSE Some(tm)

ray_sphere(rv) ==
    LET a == dot(rv.v, rv.v)
        b == Mul(Two, dot(rv.r0, rv.v))
        c == Sub(dot(rv.r0, rv.r0), One)
        d == Sub(Mul(b, b), Mul(Mul(Four, a), c))
    IN  IF Lt(d, Zero) THEN None
        ELSE LET tp == Div(Add(Neg(b), Sqrt(d)), Mul(Two, a))
                 tm == Div(Sub(Neg(b), Sqrt(d)), Mul(Two, a))
             IN  IF Lt(tp, Zero) /\ Lt(tm, Zero) THEN None
                 ELSE IF Lt(tp, Zero) THEN Some(tm)
                 ELSE IF Lt(tm, Zero) THEN Some(tp)
                 ELSE IF Lt(tp, tm) THEN Some(tp)
                 ELSE Some(tm)

(***************************************************************************)
(* render.rs: the scene.  Nodes are numbered; a node is a Sphere, a Union  *)
(* or absent ("Free").                                                     *)
(***************************************************************************)
MaxOps == 2
NodeIds == {1, 2, 3}

VARIABLES
    kind,        \* node -> "Free" | "Sphere" | "Union"
    transforms,  \* node -> _transforms
    m_rb,        \* node -> _m_rb
    m_br,        \* node -> _m_br
    itemList,    \* node -> itemList (sequence of owned child nodes)
    prepared,    \* history: the nodes prepare_render has been called on
    lastCall,    \* history: the last call made and what it returned
    fn, hA, hB, tlist, ray, ret   \* function, arguments and result of the last pure call

sceneVars == <<kind, transforms, m_rb, m_br, itemList, prepared, lastCall>>
pureVars == <<fn, hA, hB, tlist, ray, ret>>
vars == <<kind, transforms, m_rb, m_br, itemList, prepared, lastCall, fn, hA, hB, tlist, ray, ret>>

RECURSIVE Render_intersect(_, _)
RECURSIVE Union_intersect_loop(_, _, _, _)

\* the for loop of Union::intersect_local from child i on; a panic in a child unwinds
Union_intersect_loop(items, i, result, rv_b) ==
    IF result = Panic \/ i > Len(items) THEN result
    ELSE LET this_result == Render_intersect(items[i], rv_b)
         IN  IF this_result = Panic THEN Panic
             ELSE IF this_result = None
                  THEN Union_intersect_loop(items, i + 1, result, rv_b)
             ELSE IF result = None
                  THEN Union_intersect_loop(items, i + 1, this_result, rv_b)
             ELSE IF Lt(this_result[2], result[2])
                  THEN Union_intersect_loop(items, i + 1, this_result, rv_b)
             ELSE Union_intersect_loop(items, i + 1, result, rv_b)

\* a Union that keeps the last child's hit instead of the nearest
Union_intersect_local_LastWins(items, rv_b) ==
    IF Len(items) = 0 THEN Panic
    ELSE LET first == Render_intersect(items[1], rv_b)
             rest == Union_intersect_loop(SubSeq(items, 2, Len(items)), 1, None, rv_b)
         IN  IF first = Panic \/ rest = Panic THEN Panic
             ELSE IF rest = None THEN first
             ELSE rest

\* self.itemList[0] panics on an empty child list
Union_intersect_local(items, rv_b) ==
    IF Len(items) = 0 THEN Panic
    ELSE Union_intersect_loop(items, 2, Render_intersect(items[1], rv_b), rv_b)

Render_intersect(n, rv_r) ==
    LET rv_b == HMatrix_mul_ray(m_br[n], rv_r)
    IN  IF kind[n] = "Sphere" THEN Sphere_intersect_local(rv_b)
        ELSE Union_intersect_local(itemList[n], rv_b)

\* the caches as prepare_render threads them: c.ok is FALSE once a call panicked
Caches == [m_rb |-> m_rb, m_br |-> m_br, prepared |-> prepared, ok |-> TRUE]

\* a prepare_render that caches M_rb in both fields
Render_prepare_render_NoInverse(c, n) ==
    LET got == TransformList_get_matrix(transforms[n])
    IN  IF got = Panic THEN [c EXCEPT !.ok = FALSE, !.prepared = @ \cup {n}]
        ELSE [c EXCEPT !.m_rb[n] = got[2], !.m_br[n] = got[2], !.prepared = @ \cup {n}]

\* a prepare_render that composes the fold onto the matrix already cached
Render_prepare_render_Accumulate(c, n) ==
    LET got == TransformList_get_matrix(transforms[n])
    IN  IF got = Panic THEN [c EXCEPT !.ok = FALSE, !.prepared = @ \cup {n}]
        ELSE LET M_rb == HMatrix_mul(got[2], c.m_rb[n])
                 M_br == HMatrix_inv(M_rb)
             IN  [c EXCEPT !.m_rb[n] = M_rb, !.m_br[n] = M_br, !.prepared = @ \cup {n}]

\* the default Render::prepare_render, used by Sphere
Render_prepare_render(c, n) ==
    LET got == TransformList_get_matrix(transforms[n])
    IN  IF got = Panic THEN [c EXCEPT !.ok = FALSE, !.prepared = @ \cup {n}]
        ELSE LET M_rb == got[2]
                 M_br == HMatrix_inv(M_rb)
             IN  [c EXCEPT !.m_rb[n] = M_rb, !.m_br[n] = M_br, !.prepared = @ \cup {n}]

RECURSIVE prepare_render(_, _)
RECURSIVE Union_prepare_loop(_, _, _)

\* for this_render in &mut self.itemList
Union_prepare_loop(c, items, i) ==
    IF ~c.ok \/ i > Len(items) THEN c
    ELSE Union_prepare_loop(prepare_render(c, items[i]), items, i + 1)

\* a Union that prepares itself and leaves its children alone
Union_prepare_render_NoRecurse(c, n) ==
    LET got == TransformList_get_matrix(transforms[n])
    IN  IF got = Panic THEN [c EXCEPT !.ok = FALSE, !.prepared = @ \cup {n}]
        ELSE [c EXCEPT !.m_rb[n] = got[2], !.m_br[n] = HMatrix_inv(got[2]),
                       !.prepared = @ \cup {n}]

Union_prepare_render(c, n) ==
    LET got == TransformList_get_matrix(transforms[n])
    IN  IF got = Panic THEN [c EXCEPT !.ok = FALSE, !.prepared = @ \cup {n}]
        ELSE LET M_rb == got[2]
                 M_br == HMatrix_inv(M_rb)
             IN  Union_prepare_loop(
                     [c EXCEPT !.m_rb[n] = M_rb, !.m_br[n] = M_br, !.prepared = @ \cup {n}],
                     itemList[n], 1)

\* dyn Render dispatch
prepare_render(c, n) ==
    IF kind[n] = "Sphere" THEN Render_prepare_render(c, n) ELSE Union_prepare_render(c, n)

(***************************************************************************)
(* The scene program: a driver builds a tree of nodes, then edits,         *)
(* prepares and queries it                                                 *)
(***************************************************************************)
\* arguments of Render::translate
TranslateArgs == {Vec(0, 0, 3)}
\* rays handed to intersect
SceneRays ==
    {[r0 |-> Vec(0, 0, -2), v |-> Vec(0, 0, 1)],
     [r0 |-> Vec(0, 0, 0), v |-> Vec(0, 0, -1)],
     [r0 |-> Vec(2, 2, -2), v |-> Vec(0, 0, 1)]}

Sphere_make ==
    [kind |-> "Sphere", m_rb |-> HMatrix_identity, m_br |-> HMatrix_identity,
     transforms |-> <<>>, itemList |-> <<>>]

Union_make ==
    [kind |-> "Union", m_rb |-> HMatrix_identity, m_br |-> HMatrix_identity,
     transforms |-> <<>>, itemList |-> <<>>]

Absent ==
    [kind |-> "Free", m_rb |-> HMatrix_identity, m_br |-> HMatrix_identity,
     transforms |-> <<>>, itemList |-> <<>>]

\* u.itemList.push(Box::new(c)) for each c of items, in order
WithItems(u, items) == [u EXCEPT !.itemList = items]

\* the trees the driver builds with make and itemList.push
Scenes ==
    {<<Sphere_make, Absent, Absent>>,
     <<Union_make, Absent, Absent>>,
     <<WithItems(Union_make, <<2, 3>>), Sphere_make, Sphere_make>>,
     <<WithItems(Union_make, <<2>>), WithItems(Union_make, <<3>>), Sphere_make>>,
     <<WithItems(Union_make, <<2, 3>>), Sphere_make, Union_make>>}

NoCall == [op |-> "none", node |-> 0, arg |-> <<>>, ret |-> <<"Unit">>]
NoRay == [r0 |-> Vec(0, 0, 0), v |-> Vec(0, 0, 1)]
Pending == <<"Pending">>

\* the program stops at a panic
Running == lastCall.ret # Panic

RECURSIVE Subtree(_)
Subtree(n) == {n} \cup UNION {Subtree(itemList[n][i]) : i \in 1..Len(itemList[n])}

InitScene ==
    \E sc \in Scenes :
        /\ kind = [n \in NodeIds |-> sc[n].kind]
        /\ transforms = [n \in NodeIds |-> sc[n].transforms]
        /\ m_rb = [n \in NodeIds |-> sc[n].m_rb]
        /\ m_br = [n \in NodeIds |-> sc[n].m_br]
        /\ itemList = [n \in NodeIds |-> sc[n].itemList]
        /\ prepared = {}
        /\ lastCall = NoCall

InitPure ==
    /\ fn = "none" /\ hA = HMatrix_identity /\ hB = HMatrix_identity
    /\ tlist = <<>> /\ ray = NoRay /\ ret = Pending

Init == InitScene /\ InitPure

\* a translate that also refreshes the node's caches from the edited list
Render_translate_Eager(n, d) ==
    /\ Running /\ kind[n] # "Free" /\ Len(transforms[n]) < MaxOps
    /\ transforms' = [transforms EXCEPT ![n] = Append(@, Translate_make(d[1], d[2], d[3]))]
    /\ LET M_rb == TransformList_get_matrix(transforms'[n])[2]
       IN  /\ m_rb' = [m_rb EXCEPT ![n] = M_rb]
           /\ m_br' = [m_br EXCEPT ![n] = HMatrix_inv(M_rb)]
    /\ lastCall' = [op |-> "translate", node |-> n, arg |-> d, ret |-> <<"Unit">>]
    /\ UNCHANGED <<kind, itemList, prepared>>
    /\ UNCHANGED pureVars

Render_translate(n, d) ==
    /\ Running /\ kind[n] # "Free" /\ Len(transforms[n]) < MaxOps
    /\ transforms' = [transforms EXCEPT ![n] = Append(@, Translate_make(d[1], d[2], d[3]))]
    /\ lastCall' = [op |-> "translate", node |-> n, arg |-> d, ret |-> <<"Unit">>]
    /\ UNCHANGED <<kind, m_rb, m_br, itemList, prepared>>
    /\ UNCHANGED pureVars

PrepareRender(n) ==
    /\ Running /\ kind[n] # "Free"
    /\ LET c == prepare_render(Caches, n)
       IN  /\ m_rb' = c.m_rb
           /\ m_br' = c.m_br
           /\ prepared' = c.prepared
           /\ lastCall' = [op |-> "prepare_render", node |-> n, arg |-> <<>>,
                           ret |-> IF c.ok THEN <<"Unit">> ELSE Panic]
    /\ UNCHANGED <<kind, transforms, itemList>>
    /\ UNCHANGED pureVars

\* an intersect that refreshes the node's caches before it answers
Intersect_LazyPrepare(n, rv_r) ==
    /\ Running /\ kind[n] # "Free"
    /\ LET c == Render_prepare_render(Caches, n)
       IN  /\ m_rb' = c.m_rb
           /\ m_br' = c.m_br
    /\ lastCall' = [op |-> "intersect", node |-> n, arg |-> rv_r,
                    ret |-> Render_intersect(n, rv_r)]
    /\ UNCHANGED <<kind, transforms, itemList, prepared>>
    /\ UNCHANGED pureVars

Intersect(n, rv_r) ==
    /\ Running /\ kind[n] # "Free"
    /\ lastCall' = [op |-> "intersect", node |-> n, arg |-> rv_r,
                    ret |-> Render_intersect(n, rv_r)]
    /\ UNCHANGED <<kind, transforms, m_rb, m_br, itemList, prepared>>
    /\ UNCHANGED pureVars

Next ==
    \/ \E n \in NodeIds, d \in TranslateArgs : Render_translate(n, d)
    \/ \E n \in NodeIds : PrepareRender(n)
    \/ \E n \in NodeIds, rv \in SceneRays : Intersect(n, rv)

Spec == Init /\ [][Next]_vars

(***************************************************************************)
(* The pure functions, each applied once to arguments from bounded sets    *)
(***************************************************************************)
MaxLen == 2

\* linear parts: identity, uniform scale, scale, quarter turns, a shear, a general matrix
MatSet ==
    {HMatrix_identity.M,
     UniformScale_get_matrix([op |-> "UniformScale", S |-> Rat(2)]).M,
     RotateZ_get_matrix([op |-> "RotateZ", S |-> 1]).M,
     RotateX_get_matrix([op |-> "RotateX", S |-> 1]).M,
     Mat(<<1, 1, 0>>, <<0, 1, 0>>, <<0, 0, 1>>),
     Mat(<<2, 1, 0>>, <<0, 1, 0>>, <<1, 0, 1>>)}
TSet == {Vec(0, 0, 0), Vec(1, 0, 0), Vec(1, 2, 3)}
\* every HMatrix of HSet is non-singular
HSet == {h \in [M : MatSet, T : TSet] : Matrix3x3_det(h.M) # Zero}
PosSet == {Vec(0, 0, 0), Vec(1, 0, 0), Vec(0, 1, 0), Vec(1, 2, 3)}

OpSet ==
    {Translate_make(Rat(1), Rat(0), Rat(0)),
     Translate_make(Rat(0), Rat(0), Rat(3)),
     [op |-> "UniformScale", S |-> Rat(2)],
     [op |-> "Scale", S |-> Vec(1, 2, 4)],
     [op |-> "RotateX", S |-> 1],
     [op |-> "RotateY", S |-> 1],
     [op |-> "RotateZ", S |-> 1]}
Lists == UNION {[1..k -> OpSet] : k \in 0..MaxLen}

\* rays with a non-zero direction on which d.sqrt() of the solver is exact
PureRays ==
    {rv \in [r0 : {Vec(x, y, z) : x \in {-2, 0, 1, 2}, y \in {0, 2}, z \in -2..2},
             v : {Vec(0, 0, 1), Vec(0, 0, -1), Vec(0, 0, 2), Vec(1, 0, 0), Vec(0, 3, 4)}] :
        Lt(discriminant(rv), Zero) \/ IsSquare(discriminant(rv))}

\* translations Translate(D) is made with, and the directions it is applied to
DeltaSet == {Vec(0, 0, 0), Vec(1, 0, 0), Vec(0, 0, -3), Vec(1, 2, 3)}
DirSet == {Vec(0, 0, 1), Vec(1, 0, 0), Vec(0, 3, 4), Vec(-1, 2, 0)}

InitNoScene ==
    /\ kind = [n \in NodeIds |-> Absent.kind]
    /\ transforms = [n \in NodeIds |-> Absent.transforms]
    /\ m_rb = [n \in NodeIds |-> Absent.m_rb]
    /\ m_br = [n \in NodeIds |-> Absent.m_br]
    /\ itemList = [n \in NodeIds |-> Absent.itemList]
    /\ prepared = {}
    /\ lastCall = NoCall

InitArgs ==
    /\ ret = Pending
    /\ \/ fn = "HMatrix::mul" /\ hA \in HSet /\ hB \in HSet /\ tlist = <<>> /\ ray = NoRay
       \/ fn = "HMatrix::inv" /\ hA \in HSet /\ hB = HMatrix_identity /\ tlist = <<>> /\ ray = NoRay
       \/ fn = "TransformList::get_matrix" /\ hA = HMatrix_identity /\ hB = HMatrix_identity
          /\ tlist \in Lists /\ ray = NoRay
       \/ fn \in {"ray_sphere", "Sphere::intersect_local"} /\ hA = HMatrix_identity
          /\ hB = HMatrix_identity /\ tlist = <<>> /\ ray \in PureRays
       \/ fn \in {"HMatrix::mul_dir", "HMatrix::mul_pos"} /\ hA = HMatrix_identity
          /\ hB = HMatrix_identity
          /\ \E D \in DeltaSet :
                 tlist = <<Translate_make(D[1], D[2], D[3]),
                           Translate_make(Neg(D[1]), Neg(D[2]), Neg(D[3]))>>
          /\ ray \in [r0 : PosSet, v : DirSet]

Call_HMatrix_mul ==
    /\ fn = "HMatrix::mul" /\ ret = Pending
    /\ ret' = Ok(HMatrix_mul(hA, hB))
    /\ UNCHANGED <<fn, hA, hB, tlist, ray>>
    /\ UNCHANGED sceneVars

Call_HMatrix_inv ==
    /\ fn = "HMatrix::inv" /\ ret = Pending
    /\ ret' = Ok(HMatrix_inv(hA))
    /\ UNCHANGED <<fn, hA, hB, tlist, ray>>
    /\ UNCHANGED sceneVars

Call_get_matrix ==
    /\ fn = "TransformList::get_matrix" /\ ret = Pending
    /\ ret' = TransformList_get_matrix(tlist)
    /\ UNCHANGED <<fn, hA, hB, tlist, ray>>
    /\ UNCHANGED sceneVars

Call_ray_sphere ==
    /\ fn = "ray_sphere" /\ ret = Pending
    /\ ret' = ray_sphere(ray)
    /\ UNCHANGED <<fn, hA, hB, tlist, ray>>
    /\ UNCHANGED sceneVars

Call_Sphere_intersect_local ==
    /\ fn = "Sphere::intersect_local" /\ ret = Pending
    /\ ret' = Sphere_intersect_local(ray)
    /\ UNCHANGED <<fn, hA, hB, tlist, ray>>
    /\ UNCHANGED sceneVars

\* the HMatrix of Translate(D) applied to a direction
Call_HMatrix_mul_dir ==
    /\ fn = "HMatrix::mul_dir" /\ ret = Pending
    /\ ret' = Ok(HMatrix_mul_dir(get_matrix(tlist[1]), ray.v))
    /\ UNCHANGED <<fn, hA, hB, tlist, ray>>
    /\ UNCHANGED sceneVars

\* the HMatrix of Translate(D), then that of Translate(-D), applied to a position
Call_HMatrix_mul_pos ==
    /\ fn = "HMatrix::mul_pos" /\ ret = Pending
    /\ ret' = Ok(HMatrix_mul_pos(get_matrix(tlist[2]), HMatrix_mul_pos(get_matrix(tlist[1]), ray.r0)))
    /\ UNCHANGED <<fn, hA, hB, tlist, ray>>
    /\ UNCHANGED sceneVars

NextPure ==
    \/ Call_HMatrix_mul
    \/ Call_HMatrix_inv
    \/ Call_get_matrix
    \/ Call_ray_sphere
    \/ Call_Sphere_intersect_local
    \/ Call_HMatrix_mul_dir
    \/ Call_HMatrix_mul_pos

InitCalls == InitNoScene /\ InitArgs

SpecPure == InitCalls /\ [][NextPure]_vars

(***************************************************************************)
(* Properties of the pure functions (checked under SpecPure)               *)
(***************************************************************************)
Returned == ret # Pending

\* C1: HMatrix::mul(A, B) is affine composition: its linear part is A.M * B.M, its
\* translation is A.M * B.T + A.T, and applying it to a position is applying B, then A.
C1_ComposeIsAffineComposition ==
    (fn = "HMatrix::mul" /\ Returned) =>
        /\ ret[2].M = Matrix3x3_mul(hA.M, hB.M)
        /\ ret[2].T = Direction_add_dir(Matrix3x3_mul_dir(hA.M, hB.T), hA.T)
        /\ \A p \in PosSet :
               HMatrix_mul_pos(ret[2], p) = HMatrix_mul_pos(hA, HMatrix_mul_pos(hB, p))

\* C2: a non-empty list [op0, ..., opN] folds to compose(op0, compose(op1, ... opN)) with
\* compose the affine composition, so the last op is applied to a point first; the list
\* [RotateZ(quarter turn), Translate(1,0,0)] folds to a matrix sending (0,0,0) to (0,1,0).
C2_FoldIsRightToLeft ==
    LET compose(A, B) ==
            [M |-> Matrix3x3_mul(A.M, B.M),
             T |-> Direction_add_dir(Matrix3x3_mul_dir(A.M, B.T), A.T)]
        RECURSIVE fold(_)
        fold(l) == IF Len(l) = 1 THEN get_matrix(l[1])
                   ELSE compose(get_matrix(Head(l)), fold(Tail(l)))
    IN  (fn = "TransformList::get_matrix" /\ Returned /\ Len(tlist) > 0) =>
            /\ ret = Ok(fold(tlist))
            /\ tlist = <<[op |-> "RotateZ", S |-> 1], Translate_make(Rat(1), Rat(0), Rat(0))>>
                   => HMatrix_mul_pos(ret[2], Vec(0, 0, 0)) = Vec(0, 1, 0)

\* C4: for a ray with non-zero direction the solver returns None when the discriminant is
\* negative or both roots are negative, and otherwise Some(t) with t the smallest
\* non-negative root; it never returns a negative t.
C4_SmallestNonNegativeRoot ==
    (fn \in {"ray_sphere", "Sphere::intersect_local"} /\ Returned) =>
        LET a == dot(ray.v, ray.v)
            b == Mul(Two, dot(ray.r0, ray.v))
            c == Sub(dot(ray.r0, ray.r0), One)
            d == Sub(Mul(b, b), Mul(Mul(Four, a), c))
            IsRoot(t) == Add(Add(Mul(a, Mul(t, t)), Mul(b, t)), c) = Zero
            tp == Div(Add(Neg(b), Sqrt(d)), Mul(Two, a))
            tm == Div(Sub(Neg(b), Sqrt(d)), Mul(Two, a))
        IN  /\ Lt(d, Zero) => ret = None
            /\ ~Lt(d, Zero) =>
                   /\ IsRoot(tp) /\ IsRoot(tm)
                   /\ (ret = None) <=> (Lt(tp, Zero) /\ Lt(tm, Zero))
                   /\ ret # None =>
                          /\ ret[1] = "Some" /\ ret[2] \in {tp, tm}
                          /\ ~Lt(ret[2], Zero)
                          /\ \A t \in {tp, tm} : ~Lt(t, Zero) => ~Lt(t, ret[2])
            /\ ray = [r0 |-> Vec(0, 0, -2), v |-> Vec(0, 0, 1)] => ret = Some(One)
            /\ ray = [r0 |-> Vec(2, 2, -2), v |-> Vec(0, 0, 1)] => ret = None
            /\ ray = [r0 |-> Vec(0, 0, 0), v |-> Vec(0, 0, -1)] => ret = Some(One)

\* a ray from inside the sphere: the root behind the origin is discarded
C4_Witness ==
    /\ fn = "Sphere::intersect_local"
    /\ ray = [r0 |-> Vec(0, 0, 0), v |-> Vec(0, 0, -1)]
    /\ ret = Some(One)

\* C6: for every non-singular H, compose(H, invert(H)) and compose(invert(H), H) are the
\* identity transform.
C6_InverseIdentity ==
    (fn = "HMatrix::inv" /\ Returned) =>
        /\ HMatrix_mul(hA, ret[2]) = HMatrix_identity
        /\ HMatrix_mul(ret[2], hA) = HMatrix_identity

\* C7: folding an empty transform list returns the identity HMatrix rather than failing.
C7_EmptyListFoldsToIdentity ==
    (fn = "TransformList::get_matrix" /\ Returned /\ Len(tlist) = 0) =>
        ret = Ok(HMatrix_identity)

\* C11: the HMatrix of Translate(D) returns every Direction unchanged, and the HMatrix of
\* Translate(D) followed by that of Translate(-D) returns every Position to where it was.
C11_PointDirectionDuality ==
    /\ (fn = "HMatrix::mul_dir" /\ Returned) => ret[2] = ray.v
    /\ (fn = "HMatrix::mul_pos" /\ Returned) =>
           /\ tlist[2].T = <<Neg(tlist[1].T[1]), Neg(tlist[1].T[2]), Neg(tlist[1].T[3])>>
           /\ ret[2] = ray.r0

\* a direction has been through a translation that moves positions
C11_Witness ==
    /\ fn = "HMatrix::mul_dir" /\ Returned
    /\ tlist[1].T = Vec(1, 2, 3) /\ ray.v = Vec(0, 3, 4)
    /\ HMatrix_mul_pos(get_matrix(tlist[1]), ray.r0) # ray.r0

\* C13: for every H with non-singular linear part, invert(H) has linear part invert(H.M)
\* and translation -(invert(H.M) * H.T), and for every position p both invert(H) applied
\* to H applied to p and H applied to invert(H) applied to p are p.
C13_InverseRoundTrip ==
    (fn = "HMatrix::inv" /\ Returned) =>
        /\ Matrix3x3_mul(hA.M, ret[2].M) = HMatrix_identity.M
        /\ Matrix3x3_mul(ret[2].M, hA.M) = HMatrix_identity.M
        /\ ret[2].T = Matrix3x3_mul_dir(ret[2].M, <<Neg(hA.T[1]), Neg(hA.T[2]), Neg(hA.T[3])>>)
        /\ \A p \in PosSet :
               /\ HMatrix_mul_pos(ret[2], HMatrix_mul_pos(hA, p)) = p
               /\ HMatrix_mul_pos(hA, HMatrix_mul_pos(ret[2], p)) = p

\* a matrix of determinant 2 with a translation has been inverted
C13_Witness ==
    /\ fn = "HMatrix::inv" /\ Returned
    /\ hA = [M |-> Mat(<<2, 1, 0>>, <<0, 1, 0>>, <<1, 0, 1>>), T |-> Vec(1, 2, 3)]
    /\ ret[2].M # hA.M

(***************************************************************************)
(* Properties of the scene (checked under Spec)                            *)
(***************************************************************************)
Made == {n \in NodeIds : kind[n] # "Free"}

\* C3: a Union with at least one child returns the smallest t among its children's Some(t)
\* results on the same ray, None exactly when every child returns None, and the same
\* value for every permutation of its child list.
C3_UnionNearestWins ==
    \A u \in Made : (kind[u] = "Union" /\ Len(itemList[u]) >= 1) =>
        \A rv \in SceneRays :
            LET items == itemList[u]
                k == Len(items)
                res == [i \in 1..k |-> Render_intersect(items[i], rv)]
                got == Union_intersect_local(items, rv)
            IN  /\ (\A i \in 1..k : res[i] # Panic) =>
                       /\ (got = None) <=> (\A i \in 1..k : res[i] = None)
                       /\ got # None =>
                              /\ \E i \in 1..k : res[i] = got /\ got[1] = "Some"
                              /\ \A i \in 1..k : res[i] # None => ~Lt(res[i][2], got[2])
                /\ \A p \in Permutations(1..k) :
                       Union_intersect_local([i \in 1..k |-> items[p[i]]], rv) = got

\* a Union whose second child is hit nearer than its first has answered with the second
C3_Witness ==
    /\ lastCall.op = "intersect" /\ kind[lastCall.node] = "Union"
    /\ Len(itemList[lastCall.node]) = 2
    /\ LET rv_b == HMatrix_mul_ray(m_br[lastCall.node], lastCall.arg)
           r1 == Render_intersect(itemList[lastCall.node][1], rv_b)
           r2 == Render_intersect(itemList[lastCall.node][2], rv_b)
       IN  /\ r1[1] = "Some" /\ r2[1] = "Some" /\ Lt(r2[2], r1[2])
           /\ lastCall.ret = r2

\* C5: in every reachable state of a Sphere or Union the cached M_br is the inverse of
\* the cached M_rb.
C5_CachedInverse ==
    \A n \in Made : m_br[n] = HMatrix_inv(m_rb[n])

\* a prepared node whose M_rb is not the identity
C5_Witness ==
    \E n \in Made : /\ n \in prepared /\ Running
                    /\ m_rb[n] # HMatrix_identity
                    /\ m_rb[n] = TransformList_get_matrix(transforms[n])[2]

\* C8: intersect on a node prepare_render was never called on fails loudly; it never
\* returns an ordinary Some(t) or None.
C8_UnpreparedIntersectFails ==
    (lastCall.op = "intersect" /\ lastCall.node \notin prepared) => lastCall.ret = Panic

\* C9: intersect changes no transform list, cache or child list of any node, and asking
\* again with the same ray on the same tree gives the same result.
C9_IntersectReadOnly ==
    /\ [][lastCall'.op = "intersect" =>
             UNCHANGED <<kind, transforms, m_rb, m_br, itemList>>]_vars
    /\ [](lastCall.op = "intersect" =>
             lastCall.ret = Render_intersect(lastCall.node, lastCall.arg))

\* a Union has answered a ray through a child Union with a hit
C9_Witness ==
    /\ lastCall.op = "intersect" /\ lastCall.ret[1] = "Some"
    /\ kind[lastCall.node] = "Union"
    /\ \E i \in 1..Len(itemList[lastCall.node]) :
           /\ kind[itemList[lastCall.node][i]] = "Union"
           /\ lastCall.node \in prepared

\* C10: a second prepare_render on a tree whose transform lists have not changed leaves
\* every cached M_rb and M_br as the first call left them.
C10_PrepareIdempotent ==
    (lastCall.op = "prepare_render" /\ Running) =>
        LET c == prepare_render(Caches, lastCall.node)
        IN  c.ok /\ c.m_rb = m_rb /\ c.m_br = m_br

\* prepare_render has returned on a Union with two children
C10_Witness ==
    /\ lastCall.op = "prepare_render" /\ Running
    /\ kind[lastCall.node] = "Union" /\ Len(itemList[lastCall.node]) = 2
    /\ m_rb[lastCall.node] # HMatrix_identity

\* C12: when prepare_render on a Union has returned, the Union and every node of its
\* subtree is prepared: M_rb is the fold of the node's own current transform list and
\* M_br is its inverse.
C12_UnionPreparesSubtree ==
    (lastCall.op = "prepare_render" /\ Running /\ kind[lastCall.node] = "Union") =>
        \A n \in Subtree(lastCall.node) :
            /\ n \in prepared
            /\ Ok(m_rb[n]) = TransformList_get_matrix(transforms[n])
            /\ m_br[n] = HMatrix_inv(m_rb[n])

\* prepare_render has returned on a Union whose child is a Union with a child
C12_Witness ==
    /\ lastCall.op = "prepare_render" /\ Running
    /\ kind[lastCall.node] = "Union"
    /\ Cardinality(Subtree(lastCall.node)) = 3
    /\ \E i \in 1..Len(itemList[lastCall.node]) :
           kind[itemList[lastCall.node][i]] = "Union"

\* C14: translate appends exactly one Translate op to the end of the node's own transform
\* list and changes nothing else, so the caches keep their values; only prepare_render
\* writes the caches.
C14_TranslateOnlyAppends ==
    [][/\ lastCall'.op = "translate" =>
              /\ transforms' = [transforms EXCEPT ![lastCall'.node] =
                                    Append(@, [op |-> "Translate", T |-> lastCall'.arg])]
              /\ UNCHANGED <<kind, m_rb, m_br, itemList>>
       /\ (m_rb' # m_rb \/ m_br' # m_br) => lastCall'.op = "prepare_render"]_vars

\* a prepared node has been translated: its caches are those of the list before the edit
C14_Witness ==
    /\ lastCall.op = "translate" /\ lastCall.node \in prepared
    /\ Ok(m_rb[lastCall.node]) =
           TransformList_get_matrix(SubSeq(transforms[lastCall.node], 1,
                                           Len(transforms[lastCall.node]) - 1))
    /\ Ok(m_rb[lastCall.node]) # TransformList_get_matrix(transforms[lastCall.node])

\* C15: a Union with an empty child list answers intersect with None for every ray,
\* rather than failing.
C15_EmptyUnionAnswersNone ==
    (lastCall.op = "intersect" /\ kind[lastCall.node] = "Union"
        /\ Len(itemList[lastCall.node]) = 0) => lastCall.ret = None

====
